---------------------------- MODULE Spec2Model ----------------------------
(***************************************************************************)
(* The dispatcher of the Vallox RS485 - MQTT gateway (src/main.go): the    *)
(* select loop of main, the register cache with its dedup rule, the speed  *)
(* command debouncer, the scheduled refresh and the discovery announcer.   *)
(*                                                                         *)
(* Time.  The code compares time.Since(t) with constants and never looks   *)
(* at a time.Time otherwise, so a time.Time t is kept as its age, in       *)
(* milliseconds, at the current instant: time.Now() is age 0, the zero     *)
(* time.Time is age Old, and the passing of d ms adds d to every age.      *)
(* Ages saturate at Old, one more than the largest constant an age is      *)
(* compared with.                                                          *)
(*                                                                         *)
(* Outputs.  out holds what the last step sent to the collaborators (bus   *)
(* driver, broker); last says which step that was and what it found.       *)
(***************************************************************************)
EXTENDS Integers, Sequences, FiniteSets, Bags, TLC

(* ------------------------------ bounds -------------------------------- *)
\* inputs (bus events, MQTT messages, passages of time) of one behaviour
MaxInputs == 4
\* messages on homeassistant/status among them
MaxStatus == 1
\* inputs the environment lets wait in one channel
MaxWaiting == 1
\* inputs of one behaviour of SpeedSpec
MaxBurst == 5
\* messages on homeassistant/status of one behaviour of AnnounceSpec
MaxOnline == 2

(* ------------------------- program constants -------------------------- *)
FreshnessThreshold == 60000
RefreshInterval == 900000
IdleTimeout == 1000
CoolDown == 5000
Grace == 10000
RetryDelay == 1000
Settle == 20
ChanCap == 10
SpeedBits == 8
Old == RefreshInterval + 1

Min(a, b) == IF a < b THEN a ELSE b
Max(a, b) == IF a > b THEN a ELSE b

\* time.Since(t) after d more milliseconds
Later(age, d) == Min(age + d, Old)

(* ----------------------------- registers ------------------------------ *)
FanSpeed == "FanSpeed"
TempIncomingInside == "TempIncomingInside"
TempIncomingOutside == "TempIncomingOutside"
TempOutgoingInside == "TempOutgoingInside"
TempOutgoingOutside == "TempOutgoingOutside"
TempIncomingInsideNew == "TempIncomingInsideNew"
TempIncomingOutsideNew == "TempIncomingOutsideNew"
TempOutgoingInsideNew == "TempOutgoingInsideNew"
TempOutgoingOutsideNew == "TempOutgoingOutsideNew"
RhHighest == "RhHighest"

topicFanSpeed == <<"fan", "speed">>
topicFanSpeedSet == <<"fan", "set">>
topicTempIncomingIside == <<"temp", "incoming/inside">>
topicTempIncomingOutside == <<"temp", "incoming/outside">>
topicTempOutgoingInside == <<"temp", "outgoing/inside">>
topicTempOutgoingOutside == <<"temp", "outgoing/outside">>
\* fmt.Sprintf("raw/%x", register)
topicRaw(register) == <<"raw", register>>

topicMapOld ==
    (FanSpeed :> topicFanSpeed) @@
    (TempIncomingInside :> topicTempIncomingIside) @@
    (TempIncomingOutside :> topicTempIncomingOutside) @@
    (TempOutgoingInside :> topicTempOutgoingInside) @@
    (TempOutgoingOutside :> topicTempOutgoingOutside)

topicMapNew ==
    (FanSpeed :> topicFanSpeed) @@
    (TempIncomingInsideNew :> topicTempIncomingIside) @@
    (TempIncomingOutsideNew :> topicTempIncomingOutside) @@
    (TempOutgoingInsideNew :> topicTempOutgoingInside) @@
    (TempOutgoingOutsideNew :> topicTempOutgoingOutside)

\* config.NewProtocol, default false
NewProtocol == FALSE

topicMap == IF NewProtocol THEN topicMapNew ELSE topicMapOld

(* ------------------------------ inputs -------------------------------- *)
\* vallox.Event values the bus driver delivers: Register, the decoded Value,
\* the RawValue of the frame, and what ForMe answers for it.
Ev(reg, raw, val, me) ==
    [Register |-> reg, RawValue |-> raw, Value |-> val, forMe |-> me]

BusEvents ==
    { Ev(FanSpeed, 1, 1, TRUE), Ev(FanSpeed, 3, 2, TRUE),
      Ev(TempOutgoingInside, 150, 21, TRUE),
      Ev(RhHighest, 90, 90, TRUE),
      Ev(FanSpeed, 7, 3, FALSE) }

\* the reports of the fan speed among them
FanEvents == { e \in BusEvents : e.Register = FanSpeed /\ e.forMe }

\* payloads of messages on the fan/set topic: a decimal number or other text
Body(numeric, n) == [numeric |-> numeric, n |-> n]

CommandBodies ==
    { Body(TRUE, 1), Body(TRUE, 2), Body(FALSE, 0) }

\* payloads of messages on homeassistant/status
StatusBodies == { "online", "offline", "restarting" }

\* how far the clock moves between two steps
Delays == { 1000, 5000, 60000, 900000 }

(* ------------------------------- state -------------------------------- *)
VARIABLES
    EnableRaw,            \* config.EnableRaw
    started,              \* main has reached its select loop
    cache,                \* map[byte]cacheEntry, time kept as its age
    announced,            \* the keys of the announced map
    updateSpeed,
    updateSpeedRequested, \* its age
    currentSpeed,
    currentSpeedUpdated,  \* its age
    valloxEvents,         \* valloxDevice.Events(), not yet received
    speedUpdateRequest,   \* the channel: bytes not yet received
    speedUpdateSend,      \* the channel: number of bytes not yet received
    homeassistantStatus,  \* the channel: payloads not yet received
    sleeping,             \* retry goroutines of sendSpeed: bag of remaining sleep
    blocked,              \* main is stuck sending to a full speedUpdateSend
    selectAge,            \* time since main entered its select
    passes,               \* running announceMeToMqttDiscovery goroutines
    out,                  \* what the last step sent out
    last,                 \* the last step
    hist,                 \* what has happened so far
    left                  \* inputs the environment may still deliver

vars == << EnableRaw, started, cache, announced, updateSpeed, updateSpeedRequested,
           currentSpeed, currentSpeedUpdated, valloxEvents, speedUpdateRequest,
           speedUpdateSend, homeassistantStatus, sleeping, blocked, selectAge,
           passes, out, last, hist, left >>

\* nothing sent
Quiet ==
    [announce |-> <<>>, publish |-> <<>>, mqtt |-> <<>>, discovery |-> <<>>, bus |-> <<>>,
     subscribe |-> {}]

NoEntry == [present |-> FALSE]
Entry(c, r) ==
    IF r \in DOMAIN c
    THEN [present |-> TRUE, time |-> c[r].time, value |-> c[r].value]
    ELSE NoEntry

(* ------------------------- conversions, tests ------------------------- *)
\* byte(x)
ToByte(x) == x % (2 ^ SpeedBits)

\* strconv.ParseInt(body, 0, 8): the int8 the text denotes, or an error
ParseIntNoError(body) ==
    [err |-> FALSE, spd |-> IF body.numeric THEN body.n ELSE 0]

ParseInt(body) ==
    IF body.numeric /\ body.n >= -(2 ^ (SpeedBits - 1)) /\ body.n <= 2 ^ (SpeedBits - 1) - 1
    THEN [err |-> FALSE, spd |-> body.n]
    ELSE [err |-> TRUE, spd |-> 0]

hasSameRecentSpeedWithinCoolDown(request) ==
    currentSpeed = request /\ currentSpeedUpdated < CoolDown

hasSameRecentSpeed(request) ==
    currentSpeed = request /\ currentSpeedUpdated < Grace

\* valloxDev.ForMe(e)
ForMeAlways(e) == TRUE

ForMe(e) == e.forMe

\* the test of handleValloxEvent for the register that carries the fan speed
IsFanSpeedAlways(e) == TRUE

IsFanSpeed(e) == e.Register = FanSpeed

\* the test of handleValloxEvent for a register seen for the first time
FirstSeenNever(c, e) == FALSE

FirstSeenAlways(c, e) == TRUE

FirstSeen(c, e) == e.Register \notin DOMAIN c

\* the dedup test of handleValloxEvent, on a cache hit
RecentlyPublishedNever(val, e) == FALSE

RecentlyPublishedWhateverAge(val, e) ==
    val.value.RawValue = e.RawValue

RecentlyPublishedWithinRefresh(val, e) ==
    val.value.RawValue = e.RawValue /\ val.time < RefreshInterval

RecentlyPublished(val, e) ==
    val.value.RawValue = e.RawValue /\ val.time < FreshnessThreshold

\* the first test of sendSpeed: the request is younger than the cool-down
InCoolDownOfRetryDelay == updateSpeedRequested < RetryDelay

InCoolDown == updateSpeedRequested < CoolDown

\* the write test of sendSpeed, once the cool-down is over
NeedsWriteWhenDifferent == currentSpeed # updateSpeed

NeedsWrite ==
    currentSpeed # updateSpeed \/ currentSpeedUpdated > Grace

\* the test of queryValues: cached.time.Before(now - 15min)
NeedsQueryAtFreshness(c, register) ==
    register \notin DOMAIN c \/ c[register].time > FreshnessThreshold

NeedsQuery(c, register) ==
    register \notin DOMAIN c \/ c[register].time > RefreshInterval

(* ------------------------------ announcer ----------------------------- *)
Descriptor(etype, uid, stateTopic, cmdTopic) ==
    [etype |-> etype, uid |-> uid, stateTopic |-> stateTopic, cmdTopic |-> cmdTopic]

\* publishDiscovery: the announced keys and the descriptors sent, after the call
publishDiscovery(ann, sent, d) ==
    IF d.stateTopic \in ann
    THEN [announced |-> ann, sent |-> sent]
    ELSE [announced |-> ann \cup {d.stateTopic}, sent |-> Append(sent, d)]

publishSensor(ann, sent, uid, stateTopic) ==
    publishDiscovery(ann, sent, Descriptor("sensor", uid, stateTopic, <<>>))

publishSelect(ann, sent, uid, stateTopic, cmdTopic) ==
    publishDiscovery(ann, sent, Descriptor("select", uid, stateTopic, cmdTopic))

announceRawData(ann, sent, register) ==
    IF ~EnableRaw
    THEN [announced |-> ann, sent |-> sent]
    ELSE publishSensor(ann, sent, <<"raw", register>>, topicRaw(register))

\* the six calls of announceMeToMqttDiscovery, in order
KnownEntities ==
    << Descriptor("sensor", <<"fan_speed">>, topicFanSpeed, <<>>),
       Descriptor("select", <<"fan_select">>, topicFanSpeed, topicFanSpeedSet),
       Descriptor("sensor", <<"temp_incoming_outside">>, topicTempIncomingOutside, <<>>),
       Descriptor("sensor", <<"temp_incoming_insise">>, topicTempIncomingIside, <<>>),
       Descriptor("sensor", <<"temp_outgoing_inside">>, topicTempOutgoingInside, <<>>),
       Descriptor("sensor", <<"temp_outgoing_outside">>, topicTempOutgoingOutside, <<>>) >>

RECURSIVE announceKnown(_, _, _)
announceKnown(ann, sent, i) ==
    IF i > Len(KnownEntities)
    THEN [announced |-> ann, sent |-> sent]
    ELSE LET p == publishDiscovery(ann, sent, KnownEntities[i])
         IN  announceKnown(p.announced, p.sent, i + 1)

\* for reg := range cache { announceRawData(mqtt, reg) }, over the registers regs
RECURSIVE announceCached(_, _, _)
announceCached(ann, sent, regs) ==
    IF regs = {}
    THEN [announced |-> ann, sent |-> sent]
    ELSE LET reg == CHOOSE x \in regs : TRUE
             p == announceRawData(ann, sent, reg)
         IN  announceCached(p.announced, p.sent, regs \ {reg})

\* announceMeToMqttDiscovery run from start to end with nothing in between
announceMeToMqttDiscovery(c) ==
    LET k == announceKnown({}, <<>>, 1)
    IN  announceCached(k.announced, k.sent, DOMAIN c)

(* ------------------------------ publisher ----------------------------- *)
Message(topic, payload) == [topic |-> topic, payload |-> payload]

\* the messages publishValue sends for an event
publishValueRawAlways(event) ==
    (IF event.Register \in DOMAIN topicMap
     THEN << Message(topicMap[event.Register], event.Value) >>
     ELSE <<>>)
    \o << Message(topicRaw(event.Register), event.RawValue) >>

publishValue(event) ==
    (IF event.Register \in DOMAIN topicMap
     THEN << Message(topicMap[event.Register], event.Value) >>
     ELSE <<>>)
    \o
    (IF EnableRaw
     THEN << Message(topicRaw(event.Register), event.RawValue) >>
     ELSE <<>>)

\* the registers queryValues queries
queryValues(c) == { register \in DOMAIN topicMap : NeedsQuery(c, register) }

Queries(regs) == IF regs = {} THEN <<>> ELSE << <<"Query", regs>> >>

(* ------------------------------- clock -------------------------------- *)
\* the cache, d milliseconds later
CacheLater(c, d) ==
    [r \in DOMAIN c |-> [c[r] EXCEPT !.time = Later(@, d)]]

\* the sleeping retry goroutines, d milliseconds later
RECURSIVE SleepLaterOf(_, _, _)
SleepLaterOf(b, d, todo) ==
    IF todo = {}
    THEN EmptyBag
    ELSE LET t == CHOOSE x \in todo : TRUE
         IN  SleepLaterOf(b, d, todo \ {t}) (+) (Max(t - d, 0) :> b[t])

SleepLater(b, d) == SleepLaterOf(b, d, DOMAIN b)

(* ------------------------------ history ------------------------------- *)
\* addressed: registers of the handled events that were for this controller
\* accepted:  registers of the events handleValloxEvent stored and published
\* announces: per register, the calls of announceRawData so far
\* cmds:      the requests main has received, in order
\* rapid:     each of them came less than CoolDown after the one before
\* cmdAge:    age of the last of them
\* acceptAge: age of the last of them that main did not drop
\* writes:    the speeds passed to SetSpeed, in order
\* session:   the uids of the descriptors published since the announced map
\*            was last made
\* asked:     sendSpeed has queried the fan speed after a write and the device
\*            has not answered yet
\* answer:    the place in valloxEvents of the answer of the device to such a
\*            query, 0 when there is none
NoHistory ==
    [addressed |-> {}, accepted |-> {}, announces |-> << >>, cmds |-> << >>,
     rapid |-> TRUE, cmdAge |-> Old, acceptAge |-> Old, writes |-> << >>,
     session |-> << >>, asked |-> FALSE, answer |-> 0]

Count(f, x) == IF x \in DOMAIN f THEN f[x] ELSE 0

RECURSIVE Announced(_, _)
Announced(h, regs) ==
    IF regs = << >>
    THEN h
    ELSE Announced([h EXCEPT !.announces = (Head(regs) :> Count(@, Head(regs)) + 1) @@ @],
                   Tail(regs))

HistLater(h, d) == [h EXCEPT !.cmdAge = Later(@, d), !.acceptAge = Later(@, d)]

\* the uids of a sequence of descriptors
RECURSIVE Uids(_)
Uids(sent) == IF sent = << >> THEN << >> ELSE << Head(sent).uid >> \o Uids(Tail(sent))

\* after announced = make(...), and after the descriptors sent were published
NewSession(h) == [h EXCEPT !.session = << >>]
InSession(h, sent) == [h EXCEPT !.session = @ \o Uids(sent)]

(* ------------------------------- budget ------------------------------- *)
\* the inputs a behaviour may still take: any of them, status messages
Budget(any, status) == [bounded |-> TRUE, any |-> any, status |-> status]
Unlimited == [bounded |-> FALSE, any |-> 0, status |-> 0]
CanSpend == ~left.bounded \/ left.any > 0
Spent == IF left.bounded THEN [left EXCEPT !.any = @ - 1] ELSE left

(* -------------------------------- Init -------------------------------- *)
\* the package variables as declared, main not yet in its loop
Declared ==
    /\ EnableRaw \in BOOLEAN
    /\ started = FALSE
    /\ cache = << >>
    /\ announced = {}
    /\ updateSpeed = 0
    /\ updateSpeedRequested = Old
    /\ currentSpeed = 0
    /\ currentSpeedUpdated = Old
    /\ valloxEvents = << >>
    /\ speedUpdateRequest = << >>
    /\ speedUpdateSend = 0
    /\ homeassistantStatus = << >>
    /\ sleeping = EmptyBag
    /\ blocked = FALSE
    /\ selectAge = 0
    /\ passes = << >>
    /\ out = Quiet
    /\ last = [op |-> "init"]
    /\ hist = NoHistory

Init ==
    /\ Declared
    /\ left = Budget(MaxInputs, MaxStatus)

\* main can take a case of its select
Selecting == started /\ ~blocked

(* ------------------------- main, before the loop ---------------------- *)
\* announceMeToMqttDiscovery(mqtt, cache) of main, line 134
Startup ==
    /\ ~started
    /\ started' = TRUE
    /\ LET p == announceMeToMqttDiscovery(cache)
       IN  /\ announced' = p.announced
           /\ out' = [Quiet EXCEPT !.discovery = p.sent]
           /\ last' = [op |-> "announce", sent |-> p.sent, cached |-> DOMAIN cache,
                       before |-> announced]
           /\ hist' = InSession(NewSession(hist), p.sent)
    /\ selectAge' = 0
    /\ UNCHANGED << EnableRaw, cache, updateSpeed, updateSpeedRequested, currentSpeed,
                    currentSpeedUpdated, valloxEvents, speedUpdateRequest, speedUpdateSend,
                    homeassistantStatus, sleeping, blocked, passes, left >>

(* --------------------------- handleValloxEvent ------------------------ *)
\* cache[e.Register] = cached
StoredOnce(c, cached) == c @@ (cached.value.Register :> cached)

Stored(c, cached) == (cached.value.Register :> cached) @@ c

\* the effect of handleValloxEvent(e) on cache, announced, currentSpeed,
\* currentSpeedUpdated, and what it sends
handleValloxEvent(e) ==
    LET miss == e.Register \notin DOMAIN cache
        first == FirstSeen(cache, e)
        a == IF first THEN announceRawData(announced, <<>>, e.Register)
             ELSE [announced |-> announced, sent |-> <<>>]
        cached == [time |-> 0, value |-> e]
    IN  IF ~ForMe(e)
        THEN [cache |-> cache, announced |-> announced, currentSpeed |-> currentSpeed,
              currentSpeedUpdated |-> currentSpeedUpdated, out |-> Quiet]
        ELSE IF ~miss /\ RecentlyPublished(cache[e.Register], e)
        THEN [cache |-> cache, announced |-> announced, currentSpeed |-> currentSpeed,
              currentSpeedUpdated |-> currentSpeedUpdated, out |-> Quiet]
        ELSE [cache |-> Stored(cache, cached),
              announced |-> a.announced,
              currentSpeed |-> IF IsFanSpeed(e) THEN ToByte(e.Value) ELSE currentSpeed,
              currentSpeedUpdated |-> IF IsFanSpeed(e) THEN cached.time
                                      ELSE currentSpeedUpdated,
              out |-> [Quiet EXCEPT !.announce = IF first THEN << e.Register >> ELSE <<>>,
                                    !.discovery = a.sent,
                                    !.publish = << cached.value >>,
                                    !.mqtt = publishValue(cached.value)]]

\* case event := <-valloxDevice.Events()
HandleValloxEvent ==
    /\ Selecting
    /\ valloxEvents # << >>
    /\ LET e == Head(valloxEvents)
           h == handleValloxEvent(e)
       IN  /\ cache' = h.cache
           /\ announced' = h.announced
           /\ currentSpeed' = h.currentSpeed
           /\ currentSpeedUpdated' = h.currentSpeedUpdated
           /\ out' = h.out
           /\ last' = [op |-> "event", event |-> e, before |-> Entry(cache, e.Register),
                       answer |-> hist.answer = 1]
           /\ hist' = InSession(Announced(
                        [hist EXCEPT !.addressed = IF e.forMe THEN @ \cup {e.Register} ELSE @,
                                     !.accepted = IF h.out.publish # << >>
                                                  THEN @ \cup {e.Register} ELSE @,
                                     !.answer = Max(@ - 1, 0)],
                        h.out.announce), h.out.discovery)
    /\ valloxEvents' = Tail(valloxEvents)
    /\ selectAge' = 0
    /\ UNCHANGED << EnableRaw, started, updateSpeed, updateSpeedRequested,
                    speedUpdateRequest, speedUpdateSend, homeassistantStatus, sleeping,
                    blocked, passes, left >>

(* ------------------------------ debouncer ----------------------------- *)
\* case request := <-speedUpdateRequest
HandleSpeedRequest ==
    /\ Selecting
    /\ speedUpdateRequest # << >>
    /\ LET request == Head(speedUpdateRequest)
       IN  /\ speedUpdateRequest' = Tail(speedUpdateRequest)
           /\ last' = [op |-> "request", request |-> request,
                       confirmed |-> currentSpeed, updated |-> currentSpeedUpdated]
           /\ hist' = [hist EXCEPT !.cmds = Append(@, request),
                                   !.rapid = @ /\ (hist.cmds = << >> \/ hist.cmdAge < CoolDown),
                                   !.cmdAge = 0,
                                   !.acceptAge = IF hasSameRecentSpeed(request) THEN @ ELSE 0]
           /\ IF hasSameRecentSpeed(request)
              THEN UNCHANGED << updateSpeed, updateSpeedRequested, speedUpdateSend, blocked >>
              ELSE /\ updateSpeed' = request
                   /\ updateSpeedRequested' = 0
                   /\ IF speedUpdateSend < ChanCap
                      THEN speedUpdateSend' = speedUpdateSend + 1 /\ blocked' = FALSE
                      ELSE speedUpdateSend' = speedUpdateSend /\ blocked' = TRUE
    /\ out' = Quiet
    /\ selectAge' = 0
    /\ UNCHANGED << EnableRaw, started, cache, announced, currentSpeed, currentSpeedUpdated,
                    valloxEvents, homeassistantStatus, sleeping, passes, left >>

\* sendSpeed while the request is younger than the cool-down: a goroutine
\* that sleeps and sends to speedUpdateSend
SendSpeedRetry ==
    /\ InCoolDown
    /\ sleeping' = sleeping (+) SetToBag({RetryDelay})
    /\ out' = Quiet
    /\ UNCHANGED << cache, currentSpeed, currentSpeedUpdated, updateSpeedRequested, hist >>

\* sendSpeed after the cool-down, the confirmed speed being the requested one
SendSpeedSatisfied ==
    /\ ~InCoolDown
    /\ ~NeedsWrite
    /\ out' = Quiet
    /\ UNCHANGED << cache, currentSpeed, currentSpeedUpdated, updateSpeedRequested, sleeping,
                    hist >>

\* the calls of sendSpeed to the bus driver: SetSpeed, then Query(FanSpeed)
WriteOpsWithoutQuery(speed) == << <<"SetSpeed", speed>> >>

WriteOps(speed) == << <<"SetSpeed", speed>>, <<"Query", {FanSpeed}>> >>

\* sendSpeed after the cool-down: SetSpeed, 20 ms of sleep, Query(FanSpeed)
SendSpeedWrite ==
    /\ ~InCoolDown
    /\ NeedsWrite
    /\ currentSpeed' = updateSpeed
    /\ currentSpeedUpdated' = Later(0, Settle)
    /\ out' = [Quiet EXCEPT !.bus = WriteOps(updateSpeed)]
    /\ cache' = CacheLater(cache, Settle)
    /\ updateSpeedRequested' = Later(updateSpeedRequested, Settle)
    /\ sleeping' = SleepLater(sleeping, Settle)
    /\ hist' = HistLater([hist EXCEPT !.writes = Append(@, updateSpeed),
                                      !.asked = TRUE], Settle)

\* case <-speedUpdateSend
HandleSpeedSend ==
    /\ Selecting
    /\ speedUpdateSend > 0
    /\ speedUpdateSend' = speedUpdateSend - 1
    /\ last' = [op |-> "send", requested |-> updateSpeedRequested, speed |-> updateSpeed,
                confirmed |-> currentSpeed, updated |-> currentSpeedUpdated]
    /\ (SendSpeedRetry \/ SendSpeedSatisfied \/ SendSpeedWrite)
    /\ selectAge' = 0
    /\ UNCHANGED << EnableRaw, started, announced, updateSpeed, valloxEvents,
                    speedUpdateRequest, homeassistantStatus, blocked, passes, left >>

\* the goroutine of sendSpeed, its sleep over: speedUpdateSend <- updateSpeed
RetryWake ==
    /\ BagIn(0, sleeping)
    /\ speedUpdateSend < ChanCap
    /\ sleeping' = sleeping (-) SetToBag({0})
    /\ speedUpdateSend' = speedUpdateSend + 1
    /\ out' = Quiet
    /\ last' = [op |-> "wake"]
    /\ UNCHANGED << EnableRaw, started, cache, announced, updateSpeed, updateSpeedRequested,
                    currentSpeed, currentSpeedUpdated, valloxEvents, speedUpdateRequest,
                    homeassistantStatus, blocked, selectAge, passes, hist, left >>

(* ------------------------------- refresh ------------------------------ *)
Refresh(op) ==
    /\ Selecting
    /\ out' = [Quiet EXCEPT !.bus = Queries(queryValues(cache))]
    /\ last' = [op |-> op]
    /\ selectAge' = 0
    /\ UNCHANGED << EnableRaw, started, cache, announced, updateSpeed, updateSpeedRequested,
                    currentSpeed, currentSpeedUpdated, valloxEvents, speedUpdateRequest,
                    speedUpdateSend, homeassistantStatus, sleeping, blocked, passes, hist,
                    left >>

\* case <-time.After(time.Second)
IdleTimer ==
    /\ selectAge >= IdleTimeout
    /\ Refresh("idle")

\* case <-time.Tick(15 * time.Minute)
RefreshTick ==
    /\ selectAge >= RefreshInterval
    /\ Refresh("tick")

(* ---------------------------- platform status ------------------------- *)
\* a goroutine at the first line of announceMeToMqttDiscovery
\* pending: the descriptor of a publishDiscovery call that is past its test
\* of the announced map and has not yet written to it
NewPass ==
    [pc |-> 0, first |-> {}, visited |-> {}, sent |-> <<>>, before |-> {}, pending |-> <<>>]

\* the test of main on a platform status
IsOnlineUnlessOffline(status) == status # "offline"

IsOnline(status) == status = "online"

\* case status := <-homeassistantStatus
HandleStatus ==
    /\ Selecting
    /\ homeassistantStatus # << >>
    /\ LET status == Head(homeassistantStatus)
       IN  /\ homeassistantStatus' = Tail(homeassistantStatus)
           /\ passes' = IF IsOnline(status) THEN Append(passes, NewPass) ELSE passes
           /\ last' = [op |-> "status", status |-> status]
    /\ out' = Quiet
    /\ selectAge' = 0
    /\ UNCHANGED << EnableRaw, started, cache, announced, updateSpeed, updateSpeedRequested,
                    currentSpeed, currentSpeedUpdated, valloxEvents, speedUpdateRequest,
                    speedUpdateSend, sleeping, blocked, hist, left >>

RemoveAt(seq, i) == SubSeq(seq, 1, i - 1) \o SubSeq(seq, i + 1, Len(seq))

PassFrame ==
    UNCHANGED << EnableRaw, started, cache, updateSpeed, updateSpeedRequested, currentSpeed,
                 currentSpeedUpdated, valloxEvents, speedUpdateRequest, speedUpdateSend,
                 homeassistantStatus, sleeping, blocked, selectAge, left >>

\* announced = make(map[string]any)
PassReset(i) ==
    /\ passes[i].pc = 0
    /\ announced' = {}
    /\ passes' = [passes EXCEPT ![i].pc = 1, ![i].before = announced]
    /\ out' = Quiet
    /\ last' = [op |-> "pass"]
    /\ hist' = NewSession(hist)
    /\ PassFrame

\* one of the six publishSensor / publishSelect calls
PassKnown(i) ==
    /\ passes[i].pc \in 1..Len(KnownEntities)
    /\ LET p == publishDiscovery(announced, <<>>, KnownEntities[passes[i].pc])
       IN  /\ announced' = p.announced
           /\ out' = [Quiet EXCEPT !.discovery = p.sent]
           /\ passes' = [passes EXCEPT ![i].pc = @ + 1,
                                       ![i].sent = @ \o p.sent,
                                       ![i].first = IF passes[i].pc = Len(KnownEntities)
                                                    THEN DOMAIN cache ELSE @]
           /\ hist' = InSession(hist, p.sent)
    /\ last' = [op |-> "pass"]
    /\ PassFrame

\* one turn of for reg := range cache: a register of the map not yet produced
PassCached(i) ==
    /\ passes[i].pc = Len(KnownEntities) + 1
    /\ \E reg \in DOMAIN cache \ passes[i].visited :
          LET p == announceRawData(announced, <<>>, reg)
          IN  /\ announced' = p.announced
              /\ out' = [Quiet EXCEPT !.announce = << reg >>, !.discovery = p.sent]
              /\ passes' = [passes EXCEPT ![i].visited = @ \cup {reg},
                                          ![i].sent = @ \o p.sent]
              /\ hist' = InSession(Announced(hist, << reg >>), p.sent)
    /\ last' = [op |-> "pass"]
    /\ PassFrame

\* the range is over: every register the map held when it began was produced
PassEnd(i) ==
    /\ passes[i].pc = Len(KnownEntities) + 1
    /\ passes[i].first \subseteq passes[i].visited
    /\ passes' = RemoveAt(passes, i)
    /\ out' = Quiet
    /\ last' = [op |-> "announce", sent |-> passes[i].sent, cached |-> DOMAIN cache,
                before |-> passes[i].before]
    /\ UNCHANGED << announced, hist >>
    /\ PassFrame

PassStep ==
    \E i \in 1..Len(passes) : PassReset(i) \/ PassKnown(i) \/ PassCached(i) \/ PassEnd(i)

(* ---------------------------- MQTT callbacks -------------------------- *)
EnvFrame ==
    UNCHANGED << EnableRaw, started, cache, announced, updateSpeed, updateSpeedRequested,
                 currentSpeed, currentSpeedUpdated, speedUpdateSend, sleeping, blocked,
                 selectAge, passes >>

\* changeSpeedMessage
ChangeSpeedMessage(body) ==
    /\ started
    /\ CanSpend
    /\ left' = Spent
    /\ Len(speedUpdateRequest) < Min(MaxWaiting, ChanCap)
    /\ LET p == ParseInt(body)
       IN  speedUpdateRequest' = IF p.err THEN speedUpdateRequest
                                 ELSE Append(speedUpdateRequest, ToByte(p.spd))
    /\ out' = Quiet
    /\ last' = [op |-> "changeSpeedMessage", body |-> body]
    /\ UNCHANGED << valloxEvents, homeassistantStatus, hist >>
    /\ EnvFrame

\* haStatusMessage
HaStatusMessage(body) ==
    /\ started
    /\ CanSpend /\ left.status > 0
    /\ left' = [Spent EXCEPT !.status = @ - 1]
    /\ Len(homeassistantStatus) < Min(MaxWaiting, ChanCap)
    /\ homeassistantStatus' = Append(homeassistantStatus, body)
    /\ out' = Quiet
    /\ last' = [op |-> "haStatusMessage", body |-> body]
    /\ UNCHANGED << valloxEvents, speedUpdateRequest, hist >>
    /\ EnvFrame

\* the topics subscribe subscribes to
subscribe == { <<"homeassistant", "status">>, topicFanSpeedSet }

\* connectHandler, the client having connected to the broker again
ConnectHandler ==
    /\ started
    /\ CanSpend
    /\ left' = Spent
    /\ out' = [Quiet EXCEPT !.subscribe = subscribe]
    /\ last' = [op |-> "connect"]
    /\ UNCHANGED << valloxEvents, speedUpdateRequest, homeassistantStatus, hist >>
    /\ EnvFrame

(* ----------------------------- environment ---------------------------- *)
\* the frame e is a report of the fan speed to this controller, as the
\* device sends in answer to Query(FanSpeed)
FanReport(e) == e.Register = FanSpeed /\ e.forMe

\* the bus driver has decoded a frame
BusEvent(e) ==
    /\ started
    /\ CanSpend
    /\ left' = Spent
    /\ Len(valloxEvents) < MaxWaiting
    /\ valloxEvents' = Append(valloxEvents, e)
    /\ hist' = IF hist.asked /\ FanReport(e)
               THEN [hist EXCEPT !.asked = FALSE, !.answer = Len(valloxEvents) + 1]
               ELSE hist
    /\ out' = Quiet
    /\ last' = [op |-> "bus"]
    /\ UNCHANGED << speedUpdateRequest, homeassistantStatus >>
    /\ EnvFrame

\* every time.Since of the program is d milliseconds larger
Elapse(d) ==
    /\ cache' = CacheLater(cache, d)
    /\ updateSpeedRequested' = Later(updateSpeedRequested, d)
    /\ currentSpeedUpdated' = Later(currentSpeedUpdated, d)
    /\ selectAge' = Later(selectAge, d)
    /\ sleeping' = SleepLater(sleeping, d)
    /\ hist' = HistLater(hist, d)
    /\ out' = Quiet
    /\ last' = [op |-> "advance"]
    /\ UNCHANGED << EnableRaw, started, announced, updateSpeed, currentSpeed, valloxEvents,
                    speedUpdateRequest, speedUpdateSend, homeassistantStatus, blocked, passes >>

\* d milliseconds pass
Advance(d) ==
    /\ started
    /\ CanSpend
    /\ left' = Spent
    /\ Elapse(d)

(* ----------------------------- specification -------------------------- *)
Next ==
    \/ Startup
    \/ HandleValloxEvent
    \/ HandleSpeedRequest
    \/ HandleSpeedSend
    \/ HandleStatus
    \/ IdleTimer
    \/ RefreshTick
    \/ RetryWake
    \/ PassStep
    \/ \E body \in CommandBodies : ChangeSpeedMessage(body)
    \/ \E body \in StatusBodies : HaStatusMessage(body)
    \/ \E e \in BusEvents : BusEvent(e)
    \/ \E d \in Delays : Advance(d)

Spec == Init /\ [][Next]_vars

SpeedInit ==
    /\ Declared
    /\ left = Budget(MaxBurst, 0)

\* the debouncer with the fan-speed reports of the device
SpeedNext ==
    \/ Startup
    \/ HandleValloxEvent
    \/ HandleSpeedRequest
    \/ HandleSpeedSend
    \/ IdleTimer
    \/ RefreshTick
    \/ RetryWake
    \/ \E body \in CommandBodies : ChangeSpeedMessage(body)
    \/ \E e \in FanEvents : BusEvent(e)
    \/ \E d \in Delays : Advance(d)

SpeedSpec == SpeedInit /\ [][SpeedNext]_vars

\* events that keep coming in LiveSpec: a temperature, a frame for another unit
LiveEvents ==
    { Ev(TempOutgoingInside, 150, 21, TRUE), Ev(FanSpeed, 7, 3, FALSE) }

\* the clock of LiveSpec moves by half a second, or by a refresh interval
LiveDelays == { 500, RefreshInterval }

LiveInit ==
    /\ Declared
    /\ left = Unlimited

\* time passes while main waits in its select with no timer due
LiveAdvance(d) ==
    /\ selectAge < IdleTimeout
    /\ Advance(d)

Tick == \E d \in LiveDelays : LiveAdvance(d)

LiveNext ==
    \/ Startup
    \/ HandleValloxEvent
    \/ IdleTimer
    \/ RefreshTick
    \/ \E e \in LiveEvents : BusEvent(e)
    \/ Tick

\* main starts; time does not stop; select takes a case that is ready again
\* and again (it picks among the ready cases at random)
LiveFairness ==
    /\ WF_vars(Startup)
    /\ WF_vars(Tick)
    /\ SF_vars(HandleValloxEvent)
    /\ SF_vars(IdleTimer)
    /\ SF_vars(RefreshTick)

LiveSpec == LiveInit /\ [][LiveNext]_vars /\ LiveFairness

\* frames on the bus of AnswerSpec: the fan speed reported by the device, and
\* a frame for another unit
AnswerEvents ==
    { Ev(FanSpeed, 1, 1, TRUE), Ev(FanSpeed, 7, 3, FALSE) }

AnswerNext ==
    \/ Startup
    \/ HandleValloxEvent
    \/ IdleTimer
    \/ RefreshTick
    \/ \E e \in AnswerEvents : BusEvent(e)
    \/ Tick

AnswerSpec == LiveInit /\ [][AnswerNext]_vars /\ LiveFairness

\* a burst of speed commands long enough to fill speedUpdateSend with the
\* write attempts that come back from their sleep
BurstInit ==
    /\ Declared
    /\ left = Budget(ChanCap + 3, 0)

BurstNext ==
    \/ Startup
    \/ HandleSpeedRequest
    \/ HandleSpeedSend
    \/ RetryWake
    \/ ChangeSpeedMessage(Body(TRUE, 1))
    \/ Advance(RetryDelay)

BurstSpec == BurstInit /\ [][BurstNext]_vars

\* payloads of fan/set that denote numbers at the ends of the int8 range and
\* around the speeds of the device, and one that is out of the range
DomainBodies ==
    { Body(TRUE, 0), Body(TRUE, 8), Body(TRUE, 9), Body(TRUE, -1),
      Body(TRUE, 2 ^ (SpeedBits - 1) - 1), Body(TRUE, 2 ^ (SpeedBits - 1)) }

\* the debouncer with these payloads
DomainNext ==
    \/ Startup
    \/ HandleSpeedRequest
    \/ HandleSpeedSend
    \/ RetryWake
    \/ \E body \in DomainBodies : ChangeSpeedMessage(body)
    \/ \E d \in {RetryDelay, CoolDown} : Advance(d)

DomainSpec == Init /\ [][DomainNext]_vars

\* the announcer with a broker that drops the connection and takes it back
ReconnectNext ==
    \/ Startup
    \/ HandleValloxEvent
    \/ HandleStatus
    \/ PassStep
    \/ ConnectHandler
    \/ \E body \in StatusBodies : HaStatusMessage(body)
    \/ \E e \in LiveEvents : BusEvent(e)

\* main starts; select takes a case that stays ready; a goroutine of the
\* announcer goes on
ReconnectFairness ==
    /\ WF_vars(Startup)
    /\ WF_vars(HandleValloxEvent)
    /\ WF_vars(HandleStatus)
    /\ WF_vars(PassStep)

ReconnectSpec == Init /\ [][ReconnectNext]_vars /\ ReconnectFairness

\* a finite burst of speed commands, and all the time the debouncer needs
\* after it: the commands are counted, the clock is not
DebounceInit ==
    /\ Declared
    /\ left = Budget(ChanCap + 1, 0)

\* main has a speed case to take, or a retry goroutine is through its sleep
\* and can send
DebounceDue ==
    \/ Selecting /\ (speedUpdateRequest # << >> \/ speedUpdateSend > 0)
    \/ BagIn(0, sleeping) /\ speedUpdateSend < ChanCap

\* a retry delay passes while a write attempt is outstanding and neither main
\* nor a goroutine has anything to do
DebounceWait ==
    /\ started
    /\ ~DebounceDue
    /\ speedUpdateSend > 0 \/ sleeping # EmptyBag
    /\ left' = left
    /\ Elapse(RetryDelay)

DebounceNext ==
    \/ Startup
    \/ HandleSpeedRequest
    \/ HandleSpeedSend
    \/ RetryWake
    \/ ChangeSpeedMessage(Body(TRUE, 1))
    \/ DebounceWait

\* main starts; select takes a ready speed case; a goroutine that can send
\* does; time does not stop
DebounceFairness ==
    /\ WF_vars(Startup)
    /\ WF_vars(HandleSpeedRequest)
    /\ WF_vars(HandleSpeedSend)
    /\ WF_vars(RetryWake)
    /\ WF_vars(DebounceWait)

DebounceSpec == DebounceInit /\ [][DebounceNext]_vars /\ DebounceFairness

(* ------------------ the announcer, statement by statement ------------- *)
\* announceMeToMqttDiscovery runs in a goroutine of its own and shares the
\* announced map with the other runs and with main, without a lock: a call
\* of publishDiscovery is a test of the map (line 398) and, later, a write to
\* it with the publish (lines 402-404).
RawDescriptor(register) ==
    Descriptor("sensor", <<"raw", register>>, topicRaw(register), <<>>)

\* what is left of publishDiscovery(d) after its test of the map
Tested(d) == IF d.stateTopic \in announced THEN << >> ELSE << d >>

\* the test of one of the six publishSensor / publishSelect calls
RaceKnownTest(i) ==
    /\ passes[i].pending = << >>
    /\ passes[i].pc \in 1..Len(KnownEntities)
    /\ passes' = [passes EXCEPT ![i].pc = @ + 1,
                                ![i].pending = Tested(KnownEntities[passes[i].pc]),
                                ![i].first = IF passes[i].pc = Len(KnownEntities)
                                             THEN DOMAIN cache ELSE @]
    /\ out' = Quiet
    /\ last' = [op |-> "pass"]
    /\ UNCHANGED << announced, hist >>
    /\ PassFrame

\* one turn of for reg := range cache, up to the test in publishDiscovery
RaceCachedTest(i) ==
    /\ passes[i].pending = << >>
    /\ passes[i].pc = Len(KnownEntities) + 1
    /\ \E reg \in DOMAIN cache \ passes[i].visited :
          /\ passes' = [passes EXCEPT ![i].visited = @ \cup {reg},
                                      ![i].pending = IF EnableRaw
                                                     THEN Tested(RawDescriptor(reg))
                                                     ELSE << >>]
          /\ out' = [Quiet EXCEPT !.announce = << reg >>]
          /\ hist' = Announced(hist, << reg >>)
    /\ last' = [op |-> "pass"]
    /\ UNCHANGED announced
    /\ PassFrame

\* announced[stateTopic] = true; publish(mqtt, discoveryTopic, msg)
RaceWrite(i) ==
    /\ passes[i].pending # << >>
    /\ announced' = announced \cup { Head(passes[i].pending).stateTopic }
    /\ out' = [Quiet EXCEPT !.discovery = passes[i].pending]
    /\ passes' = [passes EXCEPT ![i].pending = << >>, ![i].sent = @ \o passes[i].pending]
    /\ hist' = InSession(hist, passes[i].pending)
    /\ last' = [op |-> "pass"]
    /\ PassFrame

RaceEnd(i) ==
    /\ passes[i].pending = << >>
    /\ PassEnd(i)

RaceStep ==
    \E i \in 1..Len(passes) :
        \/ PassReset(i)
        \/ RaceKnownTest(i)
        \/ RaceCachedTest(i)
        \/ RaceWrite(i)
        \/ RaceEnd(i)

AnnounceInit ==
    /\ Declared
    /\ left = Budget(MaxOnline + 1, MaxOnline)

AnnounceNext ==
    \/ Startup
    \/ HandleValloxEvent
    \/ HandleStatus
    \/ RaceStep
    \/ HaStatusMessage("online")
    \/ BusEvent(Ev(RhHighest, 90, 90, TRUE))

AnnounceSpec == AnnounceInit /\ [][AnnounceNext]_vars

(* ------------------------------- claims ------------------------------- *)
\* the step is main handling the bus event e
Handles(e) == last'.op = "event" /\ last'.event = e

\* the registers queried by what was sent
Queried(o) ==
    UNION { b[2] : b \in { o.bus[i] : i \in { j \in DOMAIN o.bus : o.bus[j][1] = "Query" } } }

\* the speeds written by what was sent
Written(o) ==
    { o.bus[i][2] : i \in { j \in DOMAIN o.bus : o.bus[j][1] = "SetSpeed" } }

DuplicateFresh(e) ==
    /\ e.forMe
    /\ e.Register \in DOMAIN cache
    /\ cache[e.Register].value.RawValue = e.RawValue
    /\ cache[e.Register].time < FreshnessThreshold

DuplicateStale(e) ==
    /\ e.forMe
    /\ e.Register \in DOMAIN cache
    /\ cache[e.Register].value.RawValue = e.RawValue
    /\ cache[e.Register].time >= FreshnessThreshold

Changed(e) ==
    /\ e.forMe
    /\ e.Register \in DOMAIN cache
    /\ cache[e.Register].value.RawValue # e.RawValue

\* C1: when the first event addressed to this controller for a register r is
\* handled, r is afterwards in the cache with the raw value of the event, the
\* event was published once, and announceRawData has been called for r exactly
\* once in all (never before, once in this step).
C1_FirstEventAccepted ==
    [][ \A e \in BusEvents :
          (Handles(e) /\ e.forMe /\ e.Register \notin hist.addressed) =>
             /\ e.Register \in DOMAIN cache'
             /\ cache'[e.Register].value.RawValue = e.RawValue
             /\ out'.publish = << e >>
             /\ out'.announce = << e.Register >>
             /\ Count(hist.announces, e.Register) = 0
             /\ Count(hist'.announces, e.Register) = 1 ]_vars

\* a first addressed event has just been handled, a descriptor sent for it
C1_Witness ==
    /\ last.op = "event"
    /\ last.event.forMe
    /\ ~last.before.present
    /\ last.event.Register \in DOMAIN cache
    /\ out.publish = << last.event >>
    /\ Len(out.discovery) = 1
    /\ Count(hist.announces, last.event.Register) = 1

\* C2: an event with the cached raw value, handled while the cached entry is
\* younger than the freshness threshold, is ignored: nothing is sent, and the
\* cache entry (value and time), the confirmed speed with its time and the
\* announced keys stay as they are; and a handled event is published once when
\* it is written to the cache and not at all when it is not, so the delivery
\* that wrote the entry and the repeated one make one write and one publish.
C2_FreshDuplicateIgnored ==
    [][ \A e \in BusEvents :
          Handles(e) =>
             /\ DuplicateFresh(e) =>
                   /\ out' = Quiet
                   /\ cache' = cache
                   /\ currentSpeed' = currentSpeed
                   /\ currentSpeedUpdated' = currentSpeedUpdated
                   /\ announced' = announced
             /\ Len(out'.publish) = IF cache' # cache THEN 1 ELSE 0 ]_vars

\* the same event has just been handled a second time, the entry being fresh
C2_Witness ==
    /\ last.op = "event"
    /\ last.event.forMe
    /\ last.before.present
    /\ last.before.value = last.event
    /\ last.before.time < FreshnessThreshold
    /\ last.before.time > 0
    /\ last.event.Register \in hist.accepted
    /\ out = Quiet

\* C3, as claimed: an event with the cached raw value, handled when the cached
\* entry is at least as old as the freshness threshold, is not published and
\* makes main query the fan-speed register.
C3_StaleDuplicateQueries ==
    [][ \A e \in BusEvents :
          (Handles(e) /\ DuplicateStale(e)) =>
             /\ out'.publish = << >>
             /\ FanSpeed \in Queried(out') ]_vars

\* C3, amended: such an event is accepted like a changed one: it is stored
\* with the current time and published once, and nothing is sent to the bus.
C3_StaleDuplicateRepublished ==
    [][ \A e \in BusEvents :
          (Handles(e) /\ DuplicateStale(e)) =>
             /\ cache'[e.Register] = [time |-> 0, value |-> e]
             /\ out'.publish = << e >>
             /\ out'.bus = << >> ]_vars

\* an event with the cached raw value has been handled, the entry being stale
C3_Witness ==
    /\ last.op = "event"
    /\ last.event.forMe
    /\ last.before.present
    /\ last.before.value.RawValue = last.event.RawValue
    /\ last.before.time >= FreshnessThreshold
    /\ out.publish = << last.event >>

\* no write attempt is queued, asleep or about to be made
DebouncerIdle ==
    /\ speedUpdateRequest = << >>
    /\ speedUpdateSend = 0
    /\ sleeping = EmptyBag

\* C4: three speed commands, each received less than CoolDown after the one
\* before, make no other bus write than one write of the third (a burst that
\* ends with nothing left to write is not held against the claim).
C4_BurstCoalesced ==
    (Len(hist.cmds) = 3 /\ hist.rapid /\ DebouncerIdle) =>
        /\ Len(hist.writes) <= 1
        /\ \A i \in DOMAIN hist.writes : hist.writes[i] = hist.cmds[3]

\* C5: the speed of every bus write is that of the last speed command main
\* has received.
C5_LastWriterWins ==
    \A v \in Written(out) : hist.cmds # << >> /\ v = hist.cmds[Len(hist.cmds)]

\* the step is main receiving a speed request
Receives == last'.op = "request"

\* C6: a speed command equal to the confirmed speed, received while the
\* confirmation is younger than Grace, is dropped: no bus write, and the
\* pending speed, its request time and the write attempts (queued or asleep)
\* stay as they are.
C6_NoOpSuppressed ==
    [][ (Receives /\ last'.request = currentSpeed /\ currentSpeedUpdated < Grace) =>
           /\ out' = Quiet
           /\ updateSpeed' = updateSpeed
           /\ updateSpeedRequested' = updateSpeedRequested
           /\ speedUpdateSend' = speedUpdateSend
           /\ sleeping' = sleeping
           /\ hist'.writes = hist.writes ]_vars

\* a command for the confirmed speed has been received 5 s after the confirmation
C6_Witness ==
    /\ last.op = "request"
    /\ last.request = last.confirmed
    /\ last.updated >= CoolDown
    /\ last.updated < Grace
    /\ out = Quiet

\* C7: the registers of the cache are those of the accepted events, and those
\* of the handled events that were addressed to this controller.
C7_CacheMembership ==
    /\ DOMAIN cache = hist.accepted
    /\ DOMAIN cache = hist.addressed

\* an event not addressed to this controller has been handled for a register
\* that is not in the cache, which holds another one
C7_Witness ==
    /\ last.op = "event"
    /\ ~last.event.forMe
    /\ last.event.Register \notin DOMAIN cache
    /\ cache # << >>

FanStale == started /\ NeedsQuery(cache, FanSpeed)

FanQueried == FanSpeed \in Queried(out)

\* C8: whenever main is in its loop and the fan-speed register is missing
\* from the cache or older than RefreshInterval, a query of the fan-speed
\* register is sent later on, or the register stops being missing or old.
C8_FanSpeedRefreshed == FanStale ~> (FanQueried \/ ~FanStale)

\* C9: when a run of announceMeToMqttDiscovery is over, it has sent a
\* descriptor for each of the six known entities and, raw topics being
\* enabled, for every register in the cache.
C9_FullAnnouncement ==
    last.op = "announce" =>
        /\ \A i \in DOMAIN KnownEntities :
              \E j \in DOMAIN last.sent : last.sent[j].uid = KnownEntities[i].uid
        /\ \A r \in (IF EnableRaw THEN last.cached ELSE {}) :
              \E j \in DOMAIN last.sent : last.sent[j].uid = <<"raw", r>>

\* C10: an event for a cached register with another raw value than the cached
\* one is stored with the current time and published once, and nothing is
\* announced.
C10_ChangedAccepted ==
    [][ \A e \in BusEvents :
          (Handles(e) /\ Changed(e)) =>
             /\ cache'[e.Register] = [time |-> 0, value |-> e]
             /\ out'.publish = << e >>
             /\ out'.announce = << >>
             /\ out'.discovery = << >>
             /\ hist'.announces = hist.announces ]_vars

\* a changed value has been handled
C10_Witness ==
    /\ last.op = "event"
    /\ last.event.forMe
    /\ last.before.present
    /\ last.before.value.RawValue # last.event.RawValue
    /\ cache[last.event.Register].value = last.event
    /\ out.publish = << last.event >>

\* C11: no descriptor is published twice for the same entity while one
\* announced map is in use, that is between two executions of
\* announced = make(...), whichever goroutine publishes it.
C11_AnnouncedOncePerSession ==
    \A i, j \in DOMAIN hist.session :
        i # j => hist.session[i] # hist.session[j]

\* the device has put a report of its fan speed on the bus
FanReported ==
    \E i \in DOMAIN valloxEvents :
        valloxEvents[i].Register = FanSpeed /\ valloxEvents[i].forMe

\* a value has been published on the fan-speed topic
FanPublished ==
    \E i \in DOMAIN out.mqtt : out.mqtt[i].topic = topicFanSpeed

\* C12, for the fan speed: if the device answers every query of the register
\* with an event, a value of the register is published at some time.
C12_FanSpeedPublished ==
    (FanQueried ~> FanReported) => <>FanPublished

\* C13: an event for this controller with the cached raw value is published
\* exactly when FreshnessThreshold or more has passed since the register was
\* last stored; it is then stored with the current time and sent to MQTT as
\* publishValue sends an event, so an unchanging value is published again
\* each time it is reported a threshold or more after its last publication.
C13_UnchangedRepublished ==
    [][ \A e \in BusEvents :
          (Handles(e) /\ e.forMe /\ e.Register \in DOMAIN cache
             /\ cache[e.Register].value.RawValue = e.RawValue) =>
             IF cache[e.Register].time >= FreshnessThreshold
             THEN /\ cache'[e.Register].time = 0
                  /\ cache'[e.Register].value = e
                  /\ out'.mqtt = publishValue(e)
                  /\ Len(out'.publish) = 1
             ELSE /\ out'.mqtt = << >>
                  /\ cache'[e.Register].time = cache[e.Register].time ]_vars

\* the fan speed, reported unchanged a minute or more after it was stored,
\* has been published on its topic again
C13_Witness ==
    /\ last.op = "event"
    /\ last.event.Register = FanSpeed
    /\ last.before.present
    /\ last.before.value.RawValue = last.event.RawValue
    /\ last.before.time >= FreshnessThreshold
    /\ FanPublished
    /\ cache[FanSpeed].time = 0

\* the topics of the registers of topicMap
KnownTopics == { topicMap[r] : r \in DOMAIN topicMap }

\* C14: with EnableRaw off, every message sent to MQTT is on the topic of
\* a register of topicMap and every descriptor is for such a topic, and an
\* accepted event for a register outside topicMap sends nothing but is
\* stored in the cache; with EnableRaw on, every accepted event is sent on
\* the raw topic of its register with its raw value.
C14_RawPassthrough ==
    [][ /\ ~EnableRaw =>
              /\ \A i \in DOMAIN out'.mqtt : out'.mqtt[i].topic \in KnownTopics
              /\ \A i \in DOMAIN out'.discovery :
                    out'.discovery[i].stateTopic \in KnownTopics
        /\ \A e \in BusEvents :
              (Handles(e) /\ out'.publish = << e >>) =>
                 /\ (~EnableRaw /\ e.Register \notin DOMAIN topicMap) =>
                       /\ out'.mqtt = << >>
                       /\ out'.discovery = << >>
                       /\ cache'[e.Register].value = e
                 /\ EnableRaw =>
                       \E i \in DOMAIN out'.mqtt :
                           out'.mqtt[i] = Message(topicRaw(e.Register), e.RawValue) ]_vars

\* with EnableRaw off, an event for a register outside topicMap has been
\* accepted and stored, and nothing was sent for it
C14_Witness ==
    /\ ~EnableRaw
    /\ last.op = "event"
    /\ last.event.Register \notin DOMAIN topicMap
    /\ out.publish = << last.event >>
    /\ out.mqtt = << >>
    /\ last.event.Register \in DOMAIN cache

\* C15: a message on the fan/set topic whose payload is not a number changes
\* nothing: the pending speed and its request time, the confirmed speed and
\* its time, the cache, both speed channels and the sleeping write attempts
\* stay as they are, and nothing is sent.
C15_MalformedDropped ==
    [][ (last'.op = "changeSpeedMessage" /\ ~last'.body.numeric) =>
           /\ UNCHANGED << updateSpeed, updateSpeedRequested, currentSpeed,
                           currentSpeedUpdated, cache, speedUpdateRequest,
                           speedUpdateSend, sleeping, blocked >>
           /\ out' = Quiet ]_vars

\* a payload that is not a number has arrived while a speed was pending
C15_Witness ==
    /\ last.op = "changeSpeedMessage"
    /\ ~last.body.numeric
    /\ hist.cmds # << >>
    /\ updateSpeed = hist.cmds[Len(hist.cmds)]
    /\ speedUpdateRequest = << >>

\* the step is taken by main: the startup pass or a case of its select
MainStep ==
    \/ ~started /\ started'
    \/ last'.op \in {"event", "request", "send", "status", "idle", "tick"}

\* C16: the cache, the confirmed speed with its time and the announced map
\* are written by main only, the passing of time apart.
C16_SingleOwner ==
    [][ (\/ announced' # announced
         \/ DOMAIN cache' # DOMAIN cache
         \/ currentSpeed' # currentSpeed) => MainStep ]_vars

\* C17: main is never stuck in its send to speedUpdateSend (line 146).
C17_NeverBlocked == ~blocked

\* the step is main running sendSpeed
Attempts == last'.op = "send"

AfterCoolDown(satisfied) ==
    (Attempts /\ hist.acceptAge >= CoolDown) =>
        IF satisfied
        THEN /\ out' = Quiet
             /\ hist'.writes = hist.writes
             /\ sleeping' = sleeping
        ELSE /\ hist'.writes = Append(hist.writes, updateSpeed)
             /\ Written(out') = { updateSpeed }
             /\ Cardinality({ i \in DOMAIN out'.bus : out'.bus[i][1] = "SetSpeed" }) = 1

\* C19, as claimed: a write attempt after the cool-down sends nothing and
\* starts no goroutine if the confirmed speed is the requested one and was
\* confirmed less than Grace ago, and calls SetSpeed once, with the requested
\* speed, in every other case.
C19_SatisfiedWhenYounger ==
    [][ AfterCoolDown(currentSpeed = updateSpeed /\ currentSpeedUpdated < Grace) ]_vars

\* C19, amended: the same with a confirmation that is not older than Grace,
\* the age Grace itself included.
C19_SatisfiedWhenNotOlder ==
    [][ AfterCoolDown(currentSpeed = updateSpeed /\ currentSpeedUpdated <= Grace) ]_vars

\* an attempt after the cool-down found the requested speed confirmed
\* exactly Grace ago and wrote nothing
C19_Witness ==
    /\ last.op = "send"
    /\ last.requested >= CoolDown
    /\ last.confirmed = last.speed
    /\ last.updated = Grace
    /\ out = Quiet
    /\ hist.writes = << >>

\* C20: whenever SetSpeed(v) is called, the confirmed speed becomes v with
\* the time of the call (Settle old when the step is over), and the next call
\* to the bus driver, in the same step of main, is Query(FanSpeed); and
\* sendSpeed queries only right after a SetSpeed.
C20_WriteThenQuery ==
    [][ LET bus == out'.bus
        IN  /\ \A i \in DOMAIN bus :
                  bus[i][1] = "SetSpeed" =>
                     /\ Attempts
                     /\ currentSpeed' = bus[i][2]
                     /\ currentSpeedUpdated' = Settle
                     /\ i + 1 \in DOMAIN bus
                     /\ bus[i + 1] = <<"Query", {FanSpeed}>>
            /\ Attempts =>
                  \A i \in DOMAIN bus :
                      bus[i][1] = "Query" => i > 1 /\ bus[i - 1][1] = "SetSpeed" ]_vars

\* a write attempt has changed the confirmed speed, written it and queried
C20_Witness ==
    /\ last.op = "send"
    /\ last.confirmed # last.speed
    /\ out.bus = << <<"SetSpeed", last.speed>>, <<"Query", {FanSpeed}>> >>
    /\ currentSpeed = last.speed
    /\ currentSpeedUpdated = Settle

\* every write attempt has been consumed and the confirmed speed is the
\* pending one
DebouncerSettled ==
    /\ DebouncerIdle
    /\ ~blocked
    /\ currentSpeed = updateSpeed

\* C21: once no more speed commands arrive, the debouncer comes to rest and
\* stays there: no write attempt is queued or asleep, and the last command
\* main took was written to the bus or found confirmed.
C21_DebouncerSettles == <>[]DebouncerSettled

\* the write attempts that exist: queued in speedUpdateSend, or held by a
\* goroutine of sendSpeed that sleeps or waits to send
OutstandingAttempts == speedUpdateSend + BagCardinality(sleeping)

\* C22: at most one write attempt exists at any moment, queued or asleep.
C22_OneAttempt == OutstandingAttempts <= 1

\* the step is main running queryValues
Refreshes == last'.op \in {"idle", "tick"}

\* what the claim says of a refresh, a cached entry counting as old when it
\* is older than threshold
RefreshRule(threshold) ==
    Refreshes =>
        /\ Queried(out') =
              { r \in DOMAIN topicMap : r \notin DOMAIN cache \/ cache[r].time > threshold }
        /\ cache' = cache

\* C23, as claimed: a refresh queries exactly the registers of topicMap that
\* are missing from the cache or were stored more than FreshnessThreshold ago,
\* the threshold of the dedup test, and leaves the cache as it is.
C23_RefreshAtFreshness == [][ RefreshRule(FreshnessThreshold) ]_vars

\* C23, amended: the same with RefreshInterval for the threshold, an entry
\* stored exactly RefreshInterval ago not being queried.
C23_RefreshAtInterval == [][ RefreshRule(RefreshInterval) ]_vars

\* a refresh has queried a register stored more than RefreshInterval ago and
\* has not queried one stored FreshnessThreshold or more, but not more than
\* RefreshInterval, ago
C23_Witness ==
    /\ last.op \in {"idle", "tick"}
    /\ \E r \in DOMAIN topicMap \cap DOMAIN cache :
          cache[r].time > RefreshInterval /\ r \in Queried(out)
    /\ \E r \in DOMAIN topicMap \cap DOMAIN cache :
          /\ cache[r].time >= FreshnessThreshold
          /\ cache[r].time <= RefreshInterval
          /\ r \notin Queried(out)

\* the step is main accepting the fan-speed event e: it is stored and published
AcceptsFan(e) == Handles(e) /\ e.Register = FanSpeed /\ out'.publish = << e >>

\* C24: the confirmed speed and the time of its confirmation change only when
\* main accepts a fan-speed event, the speed becoming the value of the event
\* and the time that of the new cache entry, and when SetSpeed is called;
\* every other step leaves both as they are (the age of the confirmation
\* growing as time passes).
C24_BeliefFrame ==
    [][ /\ (\/ currentSpeed' # currentSpeed
            \/ last'.op # "advance" /\ currentSpeedUpdated' # currentSpeedUpdated) =>
              \/ \E e \in BusEvents : AcceptsFan(e)
              \/ Written(out') # {}
        /\ \A e \in BusEvents :
              AcceptsFan(e) =>
                 /\ currentSpeed' = e.Value
                 /\ currentSpeedUpdated' = cache'[FanSpeed].time ]_vars

\* an event for another register has been accepted after the fan speed was
\* confirmed by an event, and the confirmation is as that event left it
C24_Witness ==
    /\ last.op = "event"
    /\ last.event.Register # FanSpeed
    /\ out.publish = << last.event >>
    /\ FanSpeed \in DOMAIN cache
    /\ currentSpeed = cache[FanSpeed].value.Value
    /\ currentSpeedUpdated = cache[FanSpeed].time
    /\ currentSpeedUpdated > 0

\* the step is main handling the answer of the device to the query that
\* sendSpeed sent after its last write
HandlesAnswer(e) == Handles(e) /\ hist.answer = 1

\* C25: when main has handled the answer of the device to the query sent
\* after a write, the confirmed speed is the speed reported in the answer,
\* whether the device applied the write or reports the speed it had before.
C25_EchoCorrectsBelief ==
    [][ \A e \in BusEvents : HandlesAnswer(e) => currentSpeed' = e.Value ]_vars

\* the speeds of the device
SpeedDomain == 1..8

\* C26: every speed passed to SetSpeed is one of the speeds 1 to 8 of the
\* device, whatever number the payload of the command denotes.
C26_SpeedInDomain == \A v \in Written(out) : v \in SpeedDomain

\* the client has just connected to the broker again
Reconnected == last.op = "connect"

\* a run of announceMeToMqttDiscovery is under way or has just ended
PassRuns == last.op \in {"pass", "announce"}

\* C27: after the client has connected to the broker again, a run of
\* announceMeToMqttDiscovery follows.
C27_ReannouncedOnReconnect == Reconnected ~> PassRuns

\* the step is haStatusMessage delivering, or main receiving, a platform
\* status that is not "online"
NotOnlineStep ==
    \/ last'.op = "haStatusMessage" /\ last'.body # "online"
    \/ last'.op = "status" /\ last'.status # "online"

\* C28: a platform status other than "online" has no effect beyond its own
\* passage through homeassistantStatus: the cache, the announced map, the
\* pending speed with its request time, the confirmed speed with its time,
\* the event and speed channels, the write attempts and the runs of the
\* announcer stay as they are, and nothing is sent.
C28_NotOnlineIgnored ==
    [][ NotOnlineStep =>
           /\ UNCHANGED << cache, announced, updateSpeed, updateSpeedRequested,
                           currentSpeed, currentSpeedUpdated, valloxEvents,
                           speedUpdateRequest, speedUpdateSend, sleeping, blocked,
                           passes >>
           /\ hist'.writes = hist.writes
           /\ hist'.session = hist.session
           /\ out' = Quiet ]_vars

\* main has received a status it does not know, a register being cached, and
\* no run of the announcer was started
C28_Witness ==
    /\ last.op = "status"
    /\ last.status = "restarting"
    /\ cache # << >>
    /\ passes = << >>
    /\ out = Quiet

\* C29: an event that is not addressed to this controller is ignored: the
\* cache, the confirmed speed with its time and the announced map stay as
\* they are, announceRawData is not called, and nothing is sent.
C29_NotForMeIgnored ==
    [][ \A e \in BusEvents :
          (Handles(e) /\ ~e.forMe) =>
             /\ UNCHANGED << cache, currentSpeed, currentSpeedUpdated, announced >>
             /\ hist'.announces = hist.announces
             /\ out' = Quiet ]_vars

\* a fan-speed frame for another unit has been handled while the cache held
\* another fan speed, which is still the cached and the confirmed one
C29_Witness ==
    /\ last.op = "event"
    /\ ~last.event.forMe
    /\ last.before.present
    /\ cache[last.event.Register] = [time |-> last.before.time, value |-> last.before.value]
    /\ cache[last.event.Register].value.RawValue # last.event.RawValue
    /\ currentSpeed # last.event.Value
    /\ out = Quiet

\* the step is main accepting the event e: it is stored and published
Accepts(e) == Handles(e) /\ out'.publish = << e >>

\* the clock has moved between the two states of the step
TimePasses == \E d \in Delays \cup {Settle} : cache' = CacheLater(cache, d)

=============================================================================
